---- MODULE Spec2Model ----
(***************************************************************************)
(* A model of bob.data_table: the DataTableColumn value object and the     *)
(* DataTableMixin view mixin (sorting, pagination, CSV export, cell        *)
(* lookup).  Python values are tagged records, strings are sequences of    *)
(* one-character strings, and an exception is an outcome of the call.      *)
(***************************************************************************)
EXTENDS Integers, Sequences, FiniteSets

VARIABLES view, request, last, applied

vars == <<view, request, last, applied>>

(***************************************************************************)
(* Python values.                                                          *)
(***************************************************************************)
None == [none |-> TRUE]
Str(s) == [str |-> s]
PyInt(n) == [int |-> n]
PyBool(b) == [bool |-> b]
\* an attribute that the object does not have: reading it raises AttributeError
Absent == [absent |-> TRUE]

IsNone(v) == "none" \in DOMAIN v
IsStr(v) == "str" \in DOMAIN v
IsInt(v) == "int" \in DOMAIN v
IsBool(v) == "bool" \in DOMAIN v
IsAbsent(v) == "absent" \in DOMAIN v

\* Python's truth value of an object
Truthy(v) ==
    IF IsNone(v) THEN FALSE
    ELSE IF IsStr(v) THEN v.str # <<>>
    ELSE IF IsInt(v) THEN v.int # 0
    ELSE IF IsBool(v) THEN v.bool
    ELSE TRUE

(***************************************************************************)
(* str methods used by the mixin.                                          *)
(***************************************************************************)
RECURSIVE lstrip(_, _)
lstrip(s, ch) ==
    IF s # <<>> /\ Head(s) = ch THEN lstrip(Tail(s), ch) ELSE s

RECURSIVE rstrip(_, _)
rstrip(s, ch) ==
    IF s # <<>> /\ s[Len(s)] = ch THEN rstrip(SubSeq(s, 1, Len(s) - 1), ch) ELSE s

\* s.strip(ch): every leading and every trailing ch is removed
strip(s, ch) == rstrip(lstrip(s, ch), ch)

startswith(s, ch) == s # <<>> /\ Head(s) = ch

(***************************************************************************)
(* DataTableColumn.  The constructor sets header_name, field, type,        *)
(* selectable and bob_tag; sort_expression and export exist only when the  *)
(* view's author adds them to the object.                                  *)
(***************************************************************************)
DataTableColumn(header_name, field) ==
    [header_name |-> header_name, field |-> field, type |-> None,
     selectable |-> None, bob_tag |-> None,
     sort_expression |-> Absent, export |-> Absent]

\* a column object to which sort_expression and export were added
WithAttrs(col, sort_expression, export) ==
    [col EXCEPT !.sort_expression = sort_expression, !.export = export]

(***************************************************************************)
(* Querysets: the number of rows and the ordering expression.              *)
(***************************************************************************)
QuerySet(count, ordering) == [count |-> count, ordering |-> ordering]

order_by(queryset, expr) == [queryset EXCEPT !.ordering = expr]

(***************************************************************************)
(* DataTableMixin.prepare_sortable_columns                                 *)
(***************************************************************************)
\* the dict built from (c.field, c.sort_expression) pairs: the last pair of a key wins
sortable_dict(columns) ==
    LET idx == {i \in 1..Len(columns) : Truthy(columns[i].sort_expression)}
        keys == {columns[i].field : i \in idx}
        lastOf(k) == CHOOSE i \in idx :
                        /\ columns[i].field = k
                        /\ \A j \in idx : columns[j].field = k => j <= i
    IN  [dict |-> [k \in keys |-> columns[lastOf(k)].sort_expression]]

prepare_sortable_columns(v) ==
    IF \E i \in 1..Len(v.cls.columns) : IsAbsent(v.cls.columns[i].sort_expression)
    THEN [raised |-> "AttributeError", view |-> v]
    ELSE [raised |-> "none",
          view |-> [v EXCEPT !.sortable_columns = sortable_dict(v.cls.columns)]]

\* dict.get(key): None for a missing key
dict_get(d, key) == IF key \in DOMAIN d.dict THEN d.dict[key] ELSE None

(***************************************************************************)
(* DataTableMixin.sort_queryset                                            *)
(***************************************************************************)
\* the key looked up in sortable_columns
sort_key(sort) == Str(strip(sort.str, "-"))

\* sort_expr without the descending marker
sort_expr_ascending(sort, sort_columns) == sort_columns

\* the expression handed to order_by
sort_expr(sort, sort_columns) ==
    IF startswith(sort.str, "-") THEN Str(<<"-">> \o sort_columns.str)
    ELSE sort_columns

sort_queryset(v, req, queryset, columns, sortarg) ==
    LET p == prepare_sortable_columns(v)
        v1 == p.view
        sort == IF IsNone(sortarg) THEN req.sort ELSE sortarg
        sort_columns == dict_get(v1.sortable_columns, sort_key(sort))
    IN  IF p.raised # "none"
        THEN [raised |-> p.raised, view |-> v1, result |-> None, ordered |-> FALSE]
        ELSE IF /\ columns # <<>>
                /\ queryset.count > 0
                /\ Truthy(sort)
                /\ Truthy(sort_columns)
        THEN [raised |-> "none",
              view |-> [v1 EXCEPT !.sort = sort_expr(sort, sort_columns)],
              result |-> order_by(queryset, sort_expr(sort, sort_columns)),
              ordered |-> TRUE]
        ELSE [raised |-> "none", view |-> v1, result |-> queryset,
              ordered |-> FALSE]

(***************************************************************************)
(* int(page): Python's conversion of a string to an integer.  Surrounding  *)
(* blanks are dropped, one sign is allowed, and at least one digit must    *)
(* follow and nothing else.                                                *)
(***************************************************************************)
Digits == <<"0", "1", "2", "3", "4", "5", "6", "7", "8", "9">>

is_digit(c) == \E d \in 1..Len(Digits) : Digits[d] = c

digit_value(c) == (CHOOSE d \in 1..Len(Digits) : Digits[d] = c) - 1

RECURSIVE digits_value(_, _)
digits_value(s, acc) ==
    IF s = <<>> THEN acc
    ELSE digits_value(Tail(s), acc * Len(Digits) + digit_value(Head(s)))

\* [ok |-> whether the string is an integer literal, value |-> its value]
int_of_str(s) ==
    LET t == strip(s, " ")
        signed == t # <<>> /\ Head(t) \in {"-", "+"}
        body == IF signed THEN Tail(t) ELSE t
        ok == body # <<>> /\ \A i \in 1..Len(body) : is_digit(body[i])
        magnitude == digits_value(body, 0)
    IN  IF ~ok THEN [ok |-> FALSE, value |-> 0]
        ELSE [ok |-> TRUE,
              value |-> IF signed /\ Head(t) = "-" THEN 0 - magnitude ELSE magnitude]

(***************************************************************************)
(* django.core.paginator.Paginator as _paginate uses it (orphans = 0,      *)
(* allow_empty_first_page = True).                                         *)
(***************************************************************************)
Paginator(queryset, per_page) == [object_list |-> queryset, per_page |-> per_page]

max(a, b) == IF a >= b THEN a ELSE b
min(a, b) == IF a <= b THEN a ELSE b

\* ceil(max(1, count) / per_page)
num_pages(paginator) ==
    (max(1, paginator.object_list.count) + paginator.per_page - 1)
        \div paginator.per_page

\* Paginator.page raises EmptyPage for these numbers
EmptyPage(paginator, number) == number < 1 \/ number > num_pages(paginator)

\* Page(object_list[bottom:top], number, paginator)
Page(paginator, number) ==
    [number |-> number,
     bottom |-> (number - 1) * paginator.per_page,
     top |-> min(number * paginator.per_page, paginator.object_list.count),
     ordering |-> paginator.object_list.ordering]

(***************************************************************************)
(* DataTableMixin._paginate                                                *)
(***************************************************************************)
\* page_number_of with 0 as the fallback of a string that is no integer
page_number_zero_fallback(page_param) ==
    IF ~Truthy(page_param) THEN 1
    ELSE IF int_of_str(page_param.str).ok THEN int_of_str(page_param.str).value
    ELSE 0

\* self.page_number: int(GET.get(query_variable_name) or 1), 1 on ValueError
page_number_of(page_param) ==
    IF ~Truthy(page_param) THEN 1
    ELSE IF int_of_str(page_param.str).ok THEN int_of_str(page_param.str).value
    ELSE 1

\* _paginate without the EmptyPage handler's first page
_paginate_unclamped(v, req, queryset) ==
    LET number == page_number_of(req.page)
        paginator == Paginator(queryset, v.cls.rows_per_page)
    IN  [raised |-> IF EmptyPage(paginator, number) THEN "EmptyPage" ELSE "none",
         view |-> [v EXCEPT !.page_number = PyInt(number), !.paginator = paginator],
         result |-> Page(paginator, number)]

_paginate(v, req, queryset) ==
    LET number == page_number_of(req.page)
        paginator == Paginator(queryset, v.cls.rows_per_page)
    IN  [raised |-> "none",
         view |-> [v EXCEPT !.page_number = PyInt(number), !.paginator = paginator],
         result |-> IF EmptyPage(paginator, number) THEN Page(paginator, 1)
                    ELSE Page(paginator, number)]

(***************************************************************************)
(* DataTableMixin.export_requested, get_csv_data, do_csv_export            *)
(***************************************************************************)
csv == <<"c", "s", "v">>

export_requested(req) == req.export = Str(csv)

\* a view's own get_csv_data: a header row, then one row per object of the queryset
csv_rows(queryset) ==
    LET ordering == IF IsStr(queryset.ordering) THEN queryset.ordering.str ELSE <<>>
    IN  << <<"id", "order">> >> \o [i \in 1..queryset.count |-> <<"row", ordering>>]

\* the hook returns None unless the view overrides it
get_csv_data(v, queryset) ==
    IF v.cls.overrides_get_csv_data THEN [rows |-> csv_rows(queryset)] ELSE None

\* csvutil.UnicodeWriter(f).writerows(data) writes one line per row of data;
\* None is not iterable
writerows(data) ==
    IF IsNone(data) THEN [raised |-> "TypeError", written |-> <<>>]
    ELSE [raised |-> "none",
          written |-> [i \in 1..Len(data.rows) |-> <<data.rows[i], "\r\n">>]]

HttpResponse(body, content_type) ==
    [body |-> body, content_type |-> content_type, content_disposition |-> None]

do_csv_export(v, queryset) ==
    LET data == get_csv_data(v, queryset)
        w == writerows(data)
    IN  IF w.raised # "none" THEN [raised |-> w.raised, result |-> None]
        ELSE [raised |-> "none",
              result |-> [HttpResponse(w.written, "application/csv")
                            EXCEPT !.content_disposition =
                                <<"attachment; filename=", v.cls.csv_file_name>>]]

(***************************************************************************)
(* DataTableMixin.data_table_query                                         *)
(***************************************************************************)
data_table_query(v, req, queryset) ==
    LET s == sort_queryset(v, req, queryset, v.cls.columns, None)
        e == do_csv_export(s.view, s.result)
        p == _paginate(s.view, req, s.result)
    IN  IF s.raised # "none"
        THEN [raised |-> s.raised, view |-> s.view, assigned |-> {}, sorted |-> None,
              ordered |-> FALSE]
        ELSE IF export_requested(req)
        THEN IF e.raised # "none"
             THEN [raised |-> e.raised, view |-> s.view, assigned |-> {},
                   sorted |-> s.result, ordered |-> s.ordered]
             ELSE [raised |-> "none", view |-> [s.view EXCEPT !.response = e.result],
                   assigned |-> {"response"}, sorted |-> s.result,
                   ordered |-> s.ordered]
        ELSE [raised |-> p.raised, view |-> [p.view EXCEPT !.page_contents = p.result],
              assigned |-> {"page_contents"}, sorted |-> s.result,
              ordered |-> s.ordered]

(***************************************************************************)
(* DataTableMixin.get_csv_header, get_context_data_paginator               *)
(***************************************************************************)
get_csv_header(v) ==
    LET columns == v.cls.columns
    IN  IF \E i \in 1..Len(columns) : IsAbsent(columns[i].export)
        THEN [raised |-> "AttributeError", result |-> None]
        ELSE [raised |-> "none",
              result |-> LET exported == SelectSeq(columns, LAMBDA c : Truthy(c.export))
                         IN  [list |-> [i \in 1..Len(exported) |->
                                            exported[i].header_name]]]

get_context_data_paginator(v) ==
    IF IsAbsent(v.page_contents)
    THEN [raised |-> "AttributeError", result |-> None]
    ELSE [raised |-> "none", result |-> [bob_page |-> v.page_contents]]

(***************************************************************************)
(* DataTableMixin.get_cell.  An object is its truth value and its          *)
(* attributes by name (a method is the value it returns); a model is the   *)
(* set of its fields' names.                                               *)
(***************************************************************************)
display_name(field) ==
    <<"g", "e", "t", "_">> \o field.str \o <<"_", "d", "i", "s", "p", "l", "a", "y">>

\* the try block: the display value, or '' when FieldDoesNotExist or
\* AttributeError is caught
display_cell(obj, field, model) ==
    IF /\ field \in model
       /\ display_name(field) \in DOMAIN obj.attrs
    THEN obj.attrs[display_name(field)].returns
    ELSE Str(<<>>)

get_cell(obj, field, model) ==
    LET cell == display_cell(obj, field, model)
    IN  IF ~obj.truthy THEN [raised |-> "none", result |-> Str(<<>>)]
        ELSE IF Truthy(cell) THEN [raised |-> "none", result |-> cell]
        ELSE IF ~IsStr(field)
        THEN \* getattr(obj, None): attribute name must be string
             [raised |-> "TypeError", result |-> None]
        ELSE IF field.str \in DOMAIN obj.attrs
        THEN [raised |-> "none", result |-> obj.attrs[field.str]]
        ELSE [raised |-> "none", result |-> cell]

(***************************************************************************)
(* Views, requests and arguments the model runs the mixin on.              *)
(***************************************************************************)
MaxRows == 3

a == <<"a">>
b == <<"b">>

\* the documented usage: columns built with DataTableColumn's constructor
DocumentedView ==
    [columns |-> <<DataTableColumn("Name", Str(a)), DataTableColumn("Age", Str(b))>>,
     rows_per_page |-> 2, csv_file_name |-> "file.csv",
     overrides_get_csv_data |-> FALSE]

NoColumnsView ==
    [columns |-> <<>>, rows_per_page |-> 1, csv_file_name |-> "file.csv",
     overrides_get_csv_data |-> TRUE]

\* sort_expression and export added to every column
SortableView ==
    [columns |-> <<WithAttrs(DataTableColumn("Name", Str(a)), Str(<<"x">>), PyBool(TRUE)),
                   WithAttrs(DataTableColumn("Age", Str(b)), None, PyBool(FALSE))>>,
     rows_per_page |-> 2, csv_file_name |-> "report.csv",
     overrides_get_csv_data |-> TRUE]

\* a repeated field, a column without a field, the inherited get_csv_data
RepeatedFieldView ==
    [columns |-> <<WithAttrs(DataTableColumn("Name", Str(a)), Str(<<"x">>), PyBool(TRUE)),
                   WithAttrs(DataTableColumn("Sum", None), Str(<<"z">>), PyBool(TRUE)),
                   WithAttrs(DataTableColumn("Born", Str(b)), Str(<<"-", "y">>), PyBool(FALSE)),
                   WithAttrs(DataTableColumn("Name2", Str(a)), Str(<<"x", "y">>), None)>>,
     rows_per_page |-> 1, csv_file_name |-> "file.csv",
     overrides_get_csv_data |-> FALSE]

\* no column has a sort expression
UnsortableView ==
    [columns |-> <<WithAttrs(DataTableColumn("Name", Str(a)), None, PyBool(TRUE)),
                   WithAttrs(DataTableColumn("Age", Str(b)), Str(<<>>), PyBool(TRUE))>>,
     rows_per_page |-> 3, csv_file_name |-> "report.csv",
     overrides_get_csv_data |-> TRUE]

ViewClasses == {DocumentedView, NoColumnsView, SortableView, RepeatedFieldView, UnsortableView}

\* a new view object: sort is the class attribute None, the rest is not set yet
View(cls) ==
    [cls |-> cls, sort |-> None, sortable_columns |-> Absent, page_number |-> Absent,
     paginator |-> Absent, page_contents |-> Absent, response |-> Absent]

\* request.GET.get(name): None when the parameter is absent
SortParams ==
    {None, Str(<<>>), Str(a), Str(<<"-", "a">>), Str(<<"a", "-">>),
     Str(<<"-", "-", "a">>), Str(<<"-">>), Str(b), Str(<<"-", "b">>), Str(<<"c">>)}

SortArgs == {None, Str(<<>>), Str(a), Str(<<"-", "b">>), Str(<<"c">>)}

PageParams ==
    {None, Str(<<>>), Str(<<"x">>), Str(<<"1", "x">>), Str(<<"-">>), Str(<<"0">>),
     Str(<<"1">>), Str(<<"2">>), Str(<<"3">>), Str(<<"-", "1">>), Str(<<" ", "2">>),
     Str(<<"1", "0">>), Str(<<"1", ".", "5">>)}

ExportParams == {None, Str(csv), Str(<<"C", "S", "V">>), Str(<<"c", "s", "v", " ">>)}

Request(sort, page, export) == [sort |-> sort, page |-> page, export |-> export]

QuerySets == {QuerySet(n, o) : n \in 0..MaxRows, o \in {None, Str(<<"i", "d">>)}}

\* objects, fields and models handed to get_cell
CellValues == {None, Str(<<>>), PyInt(0), Str(<<"D">>)}

Obj(truthy, display, attr) ==
    [truthy |-> truthy,
     attrs |-> [n \in (IF IsAbsent(display) THEN {} ELSE {display_name(Str(a))})
                      \cup (IF IsAbsent(attr) THEN {} ELSE {a})
                |-> IF n = a THEN attr ELSE [returns |-> display]]]

Objs ==
    {Obj(t, d, v) : t \in BOOLEAN, d \in CellValues \cup {Absent},
                    v \in CellValues \cup {Absent}}

Fields == {None, Str(a), Str(b)}

Models == {{}, {Str(a)}, {Str(a), Str(b)}}

(***************************************************************************)
(* The calls.  last is the latest call: its arguments and its outcome.     *)
(* applied is the expression of the latest order_by call on this view.     *)
(***************************************************************************)
NoCall == [op |-> "none", raised |-> "none"]

Init ==
    /\ view \in {View(c) : c \in ViewClasses}
    /\ request \in {Request(s, p, e) :
                        s \in {None, Str(a), Str(<<"-", "a">>), Str(<<"c">>)},
                        p \in {None, Str(<<"x">>), Str(<<"2">>), Str(<<"1", "0">>)},
                        e \in ExportParams}
    /\ last = NoCall
    /\ applied = None

DataTableQuery ==
    \E queryset \in QuerySets :
        LET r == data_table_query(view, request, queryset)
        IN  /\ view' = r.view
            /\ last' = [op |-> "data_table_query", queryset |-> queryset,
                        raised |-> r.raised, assigned |-> r.assigned,
                        sorted |-> r.sorted, ordered |-> r.ordered]
            /\ applied' = IF r.ordered THEN r.sorted.ordering ELSE applied
            /\ UNCHANGED request

GetCsvHeader ==
    LET r == get_csv_header(view)
    IN  /\ last' = [op |-> "get_csv_header", raised |-> r.raised, result |-> r.result]
        /\ UNCHANGED <<view, request, applied>>

GetContextDataPaginator ==
    LET r == get_context_data_paginator(view)
    IN  /\ last' = [op |-> "get_context_data_paginator", raised |-> r.raised,
                    result |-> r.result]
        /\ UNCHANGED <<view, request, applied>>

Next == DataTableQuery \/ GetCsvHeader \/ GetContextDataPaginator

Spec == Init /\ [][Next]_vars

\* sort_queryset called on its own
InitSort ==
    /\ view \in {View(c) : c \in ViewClasses}
    /\ request \in {Request(s, None, None) : s \in SortParams}
    /\ last = NoCall
    /\ applied = None

SortQueryset ==
    \E queryset \in {q \in QuerySets : q.count \in {0, MaxRows}}, sortarg \in SortArgs,
       columns \in {view.cls.columns, <<>>} :
        LET r == sort_queryset(view, request, queryset, columns, sortarg)
        IN  /\ view' = r.view
            /\ last' = [op |-> "sort_queryset", queryset |-> queryset,
                        columns |-> columns, sortarg |-> sortarg,
                        raised |-> r.raised, result |-> r.result,
                        ordered |-> r.ordered]
            /\ applied' = IF r.ordered THEN r.result.ordering ELSE applied
            /\ UNCHANGED request

NextSort == SortQueryset

SpecSort == InitSort /\ [][NextSort]_vars

\* _paginate called on its own
InitPaginate ==
    /\ view \in {View(c) : c \in ViewClasses}
    /\ request \in {Request(None, p, None) : p \in PageParams}
    /\ last = NoCall
    /\ applied = None

Paginate ==
    \E queryset \in QuerySets :
        LET r == _paginate(view, request, queryset)
        IN  /\ view' = r.view
            /\ last' = [op |-> "_paginate", queryset |-> queryset,
                        raised |-> r.raised, result |-> r.result]
            /\ UNCHANGED <<request, applied>>

NextPaginate == Paginate

SpecPaginate == InitPaginate /\ [][NextPaginate]_vars

\* get_cell, which reads nothing of the view
InitCell ==
    /\ view = View(DocumentedView)
    /\ request = Request(None, None, None)
    /\ last = NoCall
    /\ applied = None

GetCell ==
    \E obj \in Objs, field \in Fields, model \in Models :
        LET r == get_cell(obj, field, model)
        IN  /\ last' = [op |-> "get_cell", obj |-> obj, field |-> field,
                        model |-> model, raised |-> r.raised, result |-> r.result]
            /\ UNCHANGED <<view, request, applied>>

NextCell == GetCell

SpecCell == InitCell /\ [][NextCell]_vars

(***************************************************************************)
(* Properties.                                                             *)
(***************************************************************************)
\* the number of pages of count rows, rows_per_page to a page: the least n
\* whose n pages hold every row
PagesOf(count, rows_per_page) ==
    CHOOSE n \in 0..count :
        /\ n * rows_per_page >= count
        /\ \A m \in 0..count : m * rows_per_page >= count => n <= m

\* the string is blanks, then at most one sign, then one or more digits, then blanks
IsIntegerLiteral(s) ==
    \E i \in 1..Len(s), j \in 1..Len(s) :
        /\ i <= j
        /\ \A k \in 1..Len(s) : (k < i \/ k > j) => s[k] = " "
        /\ \E d \in i..j :
              /\ \A k \in d..j : is_digit(s[k])
              /\ d = i \/ (d = i + 1 /\ s[i] \in {"-", "+"})

\* C1: _paginate returns page p when p, the integer page parameter, is within
\* 1..number of pages, and page 1 for every other p; the number of the returned
\* page is within 1..max(1, number of pages), also for an empty queryset.
C1_PageWithinRange ==
    last.op = "_paginate" =>
        LET p == view.page_number.int
            n == PagesOf(last.queryset.count, view.cls.rows_per_page)
            rows == view.cls.rows_per_page
        IN  /\ last.raised = "none"
            /\ last.result.number = (IF 1 <= p /\ p <= n THEN p ELSE 1)
            /\ last.result.number \in 1..max(1, n)
            /\ last.result.bottom = (last.result.number - 1) * rows
            /\ last.result.ordering = last.queryset.ordering

\* an out-of-range page of a queryset that has rows, and an in-range page past the first
C1_Witness ==
    /\ last.op = "_paginate"
    /\ last.queryset.count = MaxRows
    /\ \/ view.page_number.int > PagesOf(MaxRows, view.cls.rows_per_page)
          /\ last.result.number = 1
       \/ view.page_number.int = 2 /\ last.result.number = 2

\* C2: a page parameter that is absent, empty or no integer literal makes
\* _paginate set page_number to 1 and return the first page, without an error.
C2_BadPageIsFirstPage ==
    (/\ last.op = "_paginate"
     /\ \/ IsNone(request.page)
        \/ ~IsIntegerLiteral(request.page.str)) =>
        /\ last.raised = "none"
        /\ view.page_number = PyInt(1)
        /\ last.result.number = 1
        /\ last.result.bottom = 0

C2_Witness ==
    /\ last.op = "_paginate"
    /\ request.page = Str(<<"1", "x">>)
    /\ last.queryset.count = MaxRows
    /\ view.page_number = PyInt(1)
    /\ last.result.number = 1

\* the sort value the call used: the argument, or else the request's parameter
SortUsed == IF IsNone(last.sortarg) THEN request.sort ELSE last.sortarg

\* the value with at most one leading descending marker removed
WithoutMarker(s) == IF s # <<>> /\ Head(s) = "-" THEN Tail(s) ELSE s

\* C3: a sort value that, with at most one leading '-' removed, is no key of
\* sortable_columns makes sort_queryset return the queryset with its ordering
\* unchanged, without calling order_by, and leave self.sort unchanged.
C3_UnknownKeyKeepsOrdering ==
    (/\ last.op = "sort_queryset"
     /\ last.raised = "none"
     /\ IsStr(SortUsed)
     /\ Str(WithoutMarker(SortUsed.str)) \notin DOMAIN view.sortable_columns.dict) =>
        /\ ~last.ordered
        /\ last.result = last.queryset
        /\ view.sort = applied

\* C4: for a non-empty column list and a non-empty queryset and every key k of
\* sortable_columns with expression e, the sort value k orders the queryset by e
\* and sets self.sort to e, the sort value '-' k orders it by '-' e and sets
\* self.sort to that; a sort argument takes precedence over the request's
\* parameter.
C4_KnownKeyOrders ==
    (/\ last.op = "sort_queryset"
     /\ last.columns # <<>>
     /\ last.queryset.count > 0
     /\ ~IsAbsent(view.sortable_columns)) =>
        \A k \in DOMAIN view.sortable_columns.dict :
            LET e == view.sortable_columns.dict[k]
                desc == Str(<<"-">> \o e.str)
            IN  IsStr(k) =>
                    /\ SortUsed = k =>
                          /\ last.raised = "none"
                          /\ last.result = QuerySet(last.queryset.count, e)
                          /\ view.sort = e
                    /\ SortUsed = Str(<<"-">> \o k.str) =>
                          /\ last.raised = "none"
                          /\ last.result = QuerySet(last.queryset.count, desc)
                          /\ view.sort = desc

\* a descending argument that overrides an ascending request parameter
C4_Witness ==
    /\ last.op = "sort_queryset"
    /\ request.sort = Str(a)
    /\ last.sortarg = Str(<<"-", "b">>)
    /\ last.ordered
    /\ last.result.ordering = Str(<<"-", "-", "y">>)
    /\ view.sort = Str(<<"-", "-", "y">>)

\* C5: export_requested is True exactly when the export parameter is 'csv', so
\* each data_table_query call either assigns self.response and not page_contents,
\* or assigns self.page_contents and not response.
C5_ExactlyOnePath ==
    last.op = "data_table_query" =>
        /\ export_requested(request) <=> request.export = Str(<<"c", "s", "v">>)
        /\ last.assigned = (IF request.export = Str(<<"c", "s", "v">>)
                            THEN {"response"} ELSE {"page_contents"})

\* C6: a view that follows the documented usage can call data_table_query
\* without an error for a request with no export flag; afterwards the page is in
\* page_contents and get_context_data_paginator returns it as 'bob_page'.
C6_DocumentedUsageWorks ==
    (/\ view.cls = DocumentedView
     /\ IsNone(request.export)
     /\ last.op = "data_table_query") =>
        /\ last.raised = "none"
        /\ ~IsAbsent(view.page_contents)
        /\ get_context_data_paginator(view).result = [bob_page |-> view.page_contents]

\* C7: data_table_query and get_csv_header finish with a safe default result
\* and never raise, whatever the page, sort and export parameters and also for
\* columns whose field or sort expression is absent.
C7_NothingRaised ==
    last.op \in {"data_table_query", "get_csv_header"} => last.raised = "none"

\* the value the claim gives get_cell(obj, field, model)
CellClaimed(obj, field, model) ==
    LET display == <<"g", "e", "t", "_">> \o field.str \o
                       <<"_", "d", "i", "s", "p", "l", "a", "y">>
    IN  IF ~obj.truthy THEN Str(<<>>)
        ELSE IF /\ IsStr(field)
                /\ field \in model
                /\ display \in DOMAIN obj.attrs
                /\ Truthy(obj.attrs[display].returns)
        THEN obj.attrs[display].returns
        ELSE IF IsStr(field) /\ field.str \in DOMAIN obj.attrs
        THEN obj.attrs[field.str]
        ELSE Str(<<>>)

\* C8: get_cell never raises for a missing model field or a missing attribute,
\* and its result is '' for a falsy obj, else the truthy display value of a
\* field of the model, else the raw attribute, else ''.
C8_CellResolution ==
    last.op = "get_cell" =>
        /\ last.raised = "none"
        /\ last.result = CellClaimed(last.obj, last.field, last.model)

\* C9: when export is requested, data_table_query produces, also for a view
\* that does not override get_csv_data, a response whose body is the CSV of
\* get_csv_data's rows for the sorted queryset, with content type
\* application/csv and the attachment file name csv_file_name.
C9_ExportResponds ==
    (last.op = "data_table_query" /\ request.export = Str(<<"c", "s", "v">>)) =>
        /\ last.raised = "none"
        /\ ~IsAbsent(view.response)
        /\ view.response.body = writerows(get_csv_data(view, last.sorted)).written
        /\ view.response.content_type = "application/csv"
        /\ view.response.content_disposition =
               <<"attachment; filename=", view.cls.csv_file_name>>

\* C10: a sort_queryset call that applies no ordering returns its queryset
\* unchanged and leaves self.sort as it was, so self.sort is the expression of
\* the latest call that applied an ordering, None if there was none.
C10_SortIsLatestApplied ==
    /\ view.sort = applied
    /\ (last.op = "sort_queryset" /\ ~last.ordered) =>
           /\ last.raised = "none"
           /\ last.result = last.queryset

====
